---- MODULE Spec2Model ----
(***************************************************************************)
(* Game-tree construction (HWs/HW1/src/json_parser.py) followed by minimax *)
(* evaluation (HWs/HW1/src/mini_max.py).                                   *)
(*                                                                         *)
(* A description is the value json.loads hands to parse_tree_from_dict.    *)
(* Node objects live in a heap keyed by node name (the parser creates      *)
(* exactly one Node per key of the 'nodes' mapping, so a name identifies   *)
(* an object).  Optional values (Python None) are sequences of length at   *)
(* most one: <<>> is None, <<v>> is the number v.                          *)
(***************************************************************************)
EXTENDS Integers, Sequences, FiniteSets, TLC

\* ------------------------------------------------------------------ bounds
\* Keys a description may define, in a fixed reference order.
Keys == <<"A", "B", "C">>
\* Child references in one description, summed over its node specs.
MaxEdges == 3
\* Leaf values are 0..MaxValue.
MaxValue == 1
\* Depth at which the interpreter aborts a recursion with RecursionError
\* (sys.getrecursionlimit(), 1000 by default); any acyclic chain over Keys
\* is shorter.
RecursionLimit == 4

Names == {Keys[i] : i \in 1..Len(Keys)}
\* A root identifier that no description defines.
NoSuchRoot == "Z"
Values == 0..MaxValue

None == <<>>
Some(v) == <<v>>

\* ------------------------------------------------------- the description
\* A node spec as the parser reads it: is it a dict, has it the keys 'type',
\* 'value', 'children', and what do they hold.
SpecRec(isDict, hasType, type, hasValue, value, hasChildren, isList, children) ==
  [isDict |-> isDict, hasType |-> hasType, type |-> type,
   hasValue |-> hasValue, value |-> value,
   hasChildren |-> hasChildren, childrenIsList |-> isList, children |-> children]

LeafSpec(v) == SpecRec(TRUE, TRUE, "leaf", TRUE, Some(v), FALSE, FALSE, <<>>)
InnerSpec(type, children) == SpecRec(TRUE, TRUE, type, FALSE, None, TRUE, TRUE, children)

ChildLists(n) == [1..n -> Names]

\* Specs of a well-formed description with n child references: a leaf with a
\* number, a max/min node with a non-empty list of names.
RegularSpecs(n) ==
  IF n = 0 THEN {LeafSpec(v) : v \in Values}
  ELSE {InnerSpec(t, c) : t \in {"max", "min"}, c \in ChildLists(n)}

\* Every other shape the parser distinguishes.
NotDictSpec            == SpecRec(FALSE, FALSE, "", FALSE, None, FALSE, FALSE, <<>>)
NoTypeSpec             == SpecRec(TRUE, FALSE, "", FALSE, None, TRUE, TRUE, <<>>)
LeafNoValueSpec        == SpecRec(TRUE, TRUE, "leaf", FALSE, None, FALSE, FALSE, <<>>)
LeafNullSpec           == SpecRec(TRUE, TRUE, "leaf", TRUE, None, FALSE, FALSE, <<>>)
LeafWithChildrenSpec(c) == SpecRec(TRUE, TRUE, "leaf", TRUE, Some(0), TRUE, TRUE, c)
InnerNoChildrenSpec    == SpecRec(TRUE, TRUE, "max", FALSE, None, FALSE, FALSE, <<>>)
InnerNotListSpec       == SpecRec(TRUE, TRUE, "max", FALSE, None, TRUE, FALSE, <<>>)
InnerWithValueSpec(c)  == SpecRec(TRUE, TRUE, "min", TRUE, Some(0), TRUE, TRUE, c)

IrregularSpecs(n) ==
  IF n = 0
  THEN {NotDictSpec, NoTypeSpec, LeafNoValueSpec, LeafNullSpec, LeafWithChildrenSpec(<<>>),
        InnerNoChildrenSpec, InnerNotListSpec}
       \cup {InnerSpec(t, <<>>) : t \in {"max", "min", "chance"}}
  ELSE {InnerSpec("chance", c) : c \in ChildLists(n)}
       \cup {InnerWithValueSpec(c) : c \in ChildLists(n)}
       \cup {LeafWithChildrenSpec(c) : c \in ChildLists(n)}

RECURSIVE Sum(_)
Sum(e) == IF e = <<>> THEN 0 ELSE e[1] + Sum(Tail(e))

\* Ways to give n node specs at most MaxEdges child references in all.
EdgeSplits(n) == {e \in [1..n -> 0..MaxEdges] : Sum(e) =< MaxEdges}

\* The specs the i-th of n keys may take, for every split of the references
\* and with at most one irregular spec (none when irregular is FALSE).
SpecChoices(n, irregular) ==
  {[i \in 1..n |-> IF i = p THEN IrregularSpecs(e[i]) ELSE RegularSpecs(e[i])] :
     p \in (IF irregular THEN 0..n ELSE {0}), e \in EdgeSplits(n)}

\* All sequences that take their i-th element from sets[i].
RECURSIVE Product(_)
Product(sets) ==
  IF sets = <<>> THEN {<<>>}
  ELSE {<<s>> \o rest : s \in sets[1], rest \in Product(Tail(sets))}

DictShapes == {"not_dict", "no_root", "no_nodes", "nodes_not_dict", "dict"}

Description(shape, root, specs) ==
  [shape |-> shape, root |-> root,
   nodes |-> [k \in {Keys[i] : i \in 1..Len(specs)} |->
                specs[CHOOSE i \in 1..Len(specs) : Keys[i] = k]]]

\* The example of parse_tree_from_dict's docstring.
Scenario1 ==
  [shape |-> "dict", root |-> "A",
   nodes |-> [k \in {"A", "B", "C", "D", "E"} |->
                CASE k = "A" -> InnerSpec("max", <<"B", "C">>)
                  [] k = "B" -> InnerSpec("min", <<"D", "E">>)
                  [] k = "C" -> LeafSpec(3)
                  [] k = "D" -> LeafSpec(5)
                  [] k = "E" -> LeafSpec(0 - 2)]]

\* The inputs: the docstring's example, the malformed top-level shapes, and
\* the mappings that define a prefix of Keys (the empty one included).  Child
\* references range over all of Names, so a mapping that defines fewer keys
\* has dangling references.  The root is the first
\* key, or, with regular specs, an identifier the mapping lacks.
\* A dangling reference, a 'children' that is not a list, and an undefined
\* root, all in one description.
DanglingAndNotList ==
  [shape |-> "dict", root |-> NoSuchRoot,
   nodes |-> [k \in {"A", "B"} |->
                IF k = "A" THEN InnerSpec("max", <<"C">>) ELSE InnerNotListSpec]]

IsDescription(d) ==
  \/ d = Scenario1
  \/ d = DanglingAndNotList
  \/ \E sh \in DictShapes \ {"dict"} : d = Description(sh, Keys[1], <<>>)
  \/ \E n \in 0..Len(Keys) :
       \/ \E choice \in SpecChoices(n, TRUE) : \E specs \in Product(choice) :
            d = Description("dict", Keys[1], specs)
       \/ \E choice \in SpecChoices(n, FALSE) : \E specs \in Product(choice) :
            d = Description("dict", NoSuchRoot, specs)

\* Iteration orders of a mapping with the given key set (dict order is the
\* order of the JSON text).
Orders(keys) ==
  {o \in [1..Cardinality(keys) -> keys] : \A i, j \in 1..Cardinality(keys) : i # j => o[i] # o[j]}

\* ------------------------------------------------ json_parser.py: Node
Node(name, type, value) ==
  [name |-> name, type |-> type, children |-> <<>>, value |-> value, parent |-> None]

is_leaf(node) == node.type = "leaf"

JSONTreeParserError(msg, node, child) ==
  [exc |-> "JSONTreeParserError", msg |-> msg, node |-> node, child |-> child]

NoError == [exc |-> "", msg |-> "", node |-> "", child |-> ""]

Raised(err, nodes) == [err |-> err, nodes |-> nodes]
Passed(nodes) == [err |-> NoError, nodes |-> nodes]

\* ------------------------------- parse_tree_from_dict, first pass (create)
\* The first loop's checks with the leaf's two messages merged into one.
CreateCheck_OneLeafMessage(name, spec) ==
  IF ~spec.isDict \/ ~spec.hasType
  THEN JSONTreeParserError("Node spec for '{name}' must be a dict with a 'type'.", name, "")
  ELSE IF spec.type = "leaf"
  THEN IF ~spec.hasValue \/ spec.hasChildren
       THEN JSONTreeParserError("Leaf node '{name}' missing 'value'.", name, "")
       ELSE NoError
  ELSE IF ~spec.hasChildren
       THEN JSONTreeParserError("Non-leaf node '{name}' missing 'children'.", name, "")
       ELSE NoError

\* The first loop's checks without the test for a leaf's 'value'.
CreateCheck_NoValueCheck(name, spec) ==
  IF ~spec.isDict \/ ~spec.hasType
  THEN JSONTreeParserError("Node spec for '{name}' must be a dict with a 'type'.", name, "")
  ELSE IF spec.type = "leaf"
  THEN IF spec.hasChildren
       THEN JSONTreeParserError("Leaf node '{name}' must not have 'children' specified.", name, "")
       ELSE NoError
  ELSE IF ~spec.hasChildren
       THEN JSONTreeParserError("Non-leaf node '{name}' missing 'children'.", name, "")
       ELSE NoError

\* The first loop's checks without the test for a leaf's 'children'.
CreateCheck_NoLeafChildrenCheck(name, spec) ==
  IF ~spec.isDict \/ ~spec.hasType
  THEN JSONTreeParserError("Node spec for '{name}' must be a dict with a 'type'.", name, "")
  ELSE IF spec.type = "leaf"
  THEN IF ~spec.hasValue
       THEN JSONTreeParserError("Leaf node '{name}' missing 'value'.", name, "")
       ELSE NoError
  ELSE IF ~spec.hasChildren
       THEN JSONTreeParserError("Non-leaf node '{name}' missing 'children'.", name, "")
       ELSE NoError

\* The checks of one iteration of the first loop.
CreateCheck(name, spec) ==
  IF ~spec.isDict \/ ~spec.hasType
  THEN JSONTreeParserError("Node spec for '{name}' must be a dict with a 'type'.", name, "")
  ELSE IF spec.type = "leaf"
  THEN IF ~spec.hasValue
       THEN JSONTreeParserError("Leaf node '{name}' missing 'value'.", name, "")
       ELSE IF spec.hasChildren
       THEN JSONTreeParserError("Leaf node '{name}' must not have 'children' specified.", name, "")
       ELSE NoError
  ELSE IF ~spec.hasChildren
       THEN JSONTreeParserError("Non-leaf node '{name}' missing 'children'.", name, "")
       ELSE NoError

\* The Node created with the spec's 'value' whatever its type.
CreateNode_KeepsValue(name, spec) ==
  Node(name, spec.type, IF spec.hasValue THEN spec.value ELSE None)

\* The Node one iteration of the first loop creates.
CreateNode(name, spec) ==
  IF spec.type = "leaf"
  THEN Node(name, "leaf", spec.value)
  ELSE Node(name, spec.type, None)

RECURSIVE CreatePass(_, _, _, _)
CreatePass(nodes_def, order, i, nodes) ==
  IF i > Len(order) THEN Passed(nodes)
  ELSE LET name == order[i]
           spec == nodes_def[name]
           err  == CreateCheck(name, spec)
       IN IF err # NoError THEN Raised(err, nodes)
          ELSE CreatePass(nodes_def, order, i + 1, nodes @@ (name :> CreateNode(name, spec)))

\* -------------------------------- parse_tree_from_dict, second pass (link)
\* May the reference cname be resolved?
ChildDefined(cname, nodes) == cname \in DOMAIN nodes

\* The child put in front of the list instead of at its end.
AppendChild_Prepends(nodes, name, cname) ==
  LET linked == [nodes EXCEPT ![name].children = <<cname>> \o @]
  IN IF linked[cname].parent = None
     THEN [linked EXCEPT ![cname].parent = Some(name)]
     ELSE linked

\* node.children.append(child_node); the parent is set only if still None.
AppendChild(nodes, name, cname) ==
  LET linked == [nodes EXCEPT ![name].children = Append(@, cname)]
  IN IF linked[cname].parent = None
     THEN [linked EXCEPT ![cname].parent = Some(name)]
     ELSE linked

\* The inner loop passing over an undefined child instead of raising.
RECURSIVE LinkChildren_SkipsUndefined(_, _, _, _)
LinkChildren_SkipsUndefined(nodes, name, child_names, k) ==
  IF k > Len(child_names) THEN Passed(nodes)
  ELSE LET cname == child_names[k]
       IN IF ~ChildDefined(cname, nodes)
          THEN LinkChildren_SkipsUndefined(nodes, name, child_names, k + 1)
          ELSE LinkChildren_SkipsUndefined(AppendChild(nodes, name, cname), name,
                                           child_names, k + 1)

RECURSIVE LinkChildren(_, _, _, _)
LinkChildren(nodes, name, child_names, k) ==
  IF k > Len(child_names) THEN Passed(nodes)
  ELSE LET cname == child_names[k]
       IN IF ~ChildDefined(cname, nodes)
          THEN Raised(JSONTreeParserError(
                        "Child '{cname}' referenced by '{name}' not defined in nodes.",
                        name, cname), nodes)
          ELSE LinkChildren(AppendChild(nodes, name, cname), name, child_names, k + 1)

\* The second loop leaving at the first leaf (break) instead of skipping it.
RECURSIVE LinkPass_Break(_, _, _, _)
LinkPass_Break(nodes_def, order, i, nodes) ==
  IF i > Len(order) THEN Passed(nodes)
  ELSE LET name == order[i]
           spec == nodes_def[name]
       IN IF is_leaf(nodes[name])
          THEN Passed(nodes)
          ELSE IF spec.hasChildren /\ ~spec.childrenIsList
          THEN Raised(JSONTreeParserError("'children' for node '{name}' must be a list.",
                                          name, ""), nodes)
          ELSE LET child_names == IF spec.hasChildren THEN spec.children ELSE <<>>
                   r == LinkChildren(nodes, name, child_names, 1)
               IN IF r.err # NoError THEN r
                  ELSE LinkPass_Break(nodes_def, order, i + 1, r.nodes)

RECURSIVE LinkPass(_, _, _, _)
LinkPass(nodes_def, order, i, nodes) ==
  IF i > Len(order) THEN Passed(nodes)
  ELSE LET name == order[i]
           spec == nodes_def[name]
       IN IF is_leaf(nodes[name])
          THEN LinkPass(nodes_def, order, i + 1, nodes)
          ELSE IF spec.hasChildren /\ ~spec.childrenIsList
          THEN Raised(JSONTreeParserError("'children' for node '{name}' must be a list.",
                                          name, ""), nodes)
          ELSE LET child_names == IF spec.hasChildren THEN spec.children ELSE <<>>
                   r == LinkChildren(nodes, name, child_names, 1)
               IN IF r.err # NoError THEN r
                  ELSE LinkPass(nodes_def, order, i + 1, r.nodes)

\* ---------------------------- parse_tree_from_dict, third pass (validate)
\* The last loop's checks without the test for a childless max/min node.
ValidateNode_LeafOnly(n) ==
  IF is_leaf(n) /\ n.children # <<>>
  THEN JSONTreeParserError("Leaf node '{name}' has children defined.", n.name, "")
  ELSE NoError

\* The checks of one iteration of the last loop.
ValidateNode(n) ==
  IF is_leaf(n) /\ n.children # <<>>
  THEN JSONTreeParserError("Leaf node '{name}' has children defined.", n.name, "")
  ELSE IF n.type \in {"max", "min"} /\ n.children = <<>>
  THEN JSONTreeParserError("Node '{name}' of type '{type}' must have children.", n.name, "")
  ELSE NoError

\* The last loop left after its first iteration.
ValidatePass_FirstOnly(order, i, nodes) ==
  IF i > Len(order) THEN Passed(nodes)
  ELSE LET err == ValidateNode(nodes[order[i]])
       IN IF err # NoError THEN Raised(err, nodes) ELSE Passed(nodes)

RECURSIVE ValidatePass(_, _, _)
ValidatePass(order, i, nodes) ==
  IF i > Len(order) THEN Passed(nodes)
  ELSE LET err == ValidateNode(nodes[order[i]])
       IN IF err # NoError THEN Raised(err, nodes)
          ELSE ValidatePass(order, i + 1, nodes)

\* ------------------------------------------------- parse_tree_from_dict
\* parse_tree_from_dict without the test that the root is defined: the
\* lookup nodes[root_name] then fails.
parse_tree_from_dict_NoRootCheck(data, order) ==
  IF data.shape = "not_dict"
  THEN Raised(JSONTreeParserError("Input data must be a dictionary (parsed JSON).", "", ""), <<>>)
  ELSE IF data.shape \in {"no_root", "no_nodes"}
  THEN Raised(JSONTreeParserError("JSON must contain 'root' and 'nodes' keys.", "", ""), <<>>)
  ELSE IF data.shape = "nodes_not_dict"
  THEN Raised(JSONTreeParserError("'nodes' must be a dictionary mapping names to node specs.",
                                  "", ""), <<>>)
  ELSE LET created == CreatePass(data.nodes, order, 1, <<>>)
       IN IF created.err # NoError THEN created
          ELSE LET linked == LinkPass(data.nodes, order, 1, created.nodes)
               IN IF linked.err # NoError THEN linked
                  ELSE IF data.root \notin DOMAIN linked.nodes
                  THEN Raised([exc |-> "KeyError", msg |-> "", node |-> data.root,
                               child |-> ""], linked.nodes)
                  ELSE ValidatePass(order, 1, linked.nodes)

\* parse_tree_from_dict without the test that 'nodes' is a dict: the first
\* loop then fails on nodes_def.items().
parse_tree_from_dict_NodesUnchecked(data, order) ==
  IF data.shape = "not_dict"
  THEN Raised(JSONTreeParserError("Input data must be a dictionary (parsed JSON).", "", ""), <<>>)
  ELSE IF data.shape \in {"no_root", "no_nodes"}
  THEN Raised(JSONTreeParserError("JSON must contain 'root' and 'nodes' keys.", "", ""), <<>>)
  ELSE IF data.shape = "nodes_not_dict"
  THEN Raised([exc |-> "AttributeError", msg |-> "", node |-> "", child |-> ""], <<>>)
  ELSE LET created == CreatePass(data.nodes, order, 1, <<>>)
       IN IF created.err # NoError THEN created
          ELSE LET linked == LinkPass(data.nodes, order, 1, created.nodes)
               IN IF linked.err # NoError THEN linked
                  ELSE IF data.root \notin DOMAIN linked.nodes
                  THEN Raised(JSONTreeParserError("Root '{root_name}' not found among nodes.",
                                                  data.root, ""), linked.nodes)
                  ELSE ValidatePass(order, 1, linked.nodes)

\* parse_tree_from_dict with the test that the root is defined made before
\* the children are linked.
parse_tree_from_dict_RootCheckedFirst(data, order) ==
  IF data.shape = "not_dict"
  THEN Raised(JSONTreeParserError("Input data must be a dictionary (parsed JSON).", "", ""), <<>>)
  ELSE IF data.shape \in {"no_root", "no_nodes"}
  THEN Raised(JSONTreeParserError("JSON must contain 'root' and 'nodes' keys.", "", ""), <<>>)
  ELSE IF data.shape = "nodes_not_dict"
  THEN Raised(JSONTreeParserError("'nodes' must be a dictionary mapping names to node specs.",
                                  "", ""), <<>>)
  ELSE LET created == CreatePass(data.nodes, order, 1, <<>>)
       IN IF created.err # NoError THEN created
          ELSE IF data.root \notin DOMAIN created.nodes
          THEN Raised(JSONTreeParserError("Root '{root_name}' not found among nodes.",
                                          data.root, ""), created.nodes)
          ELSE LET linked == LinkPass(data.nodes, order, 1, created.nodes)
               IN IF linked.err # NoError THEN linked
                  ELSE ValidatePass(order, 1, linked.nodes)

\* The outcome of parse_tree_from_dict(data) when the 'nodes' mapping iterates
\* in `order`: the error raised (NoError on return) and the Node heap.
parse_tree_from_dict(data, order) ==
  IF data.shape = "not_dict"
  THEN Raised(JSONTreeParserError("Input data must be a dictionary (parsed JSON).", "", ""), <<>>)
  ELSE IF data.shape \in {"no_root", "no_nodes"}
  THEN Raised(JSONTreeParserError("JSON must contain 'root' and 'nodes' keys.", "", ""), <<>>)
  ELSE IF data.shape = "nodes_not_dict"
  THEN Raised(JSONTreeParserError("'nodes' must be a dictionary mapping names to node specs.",
                                  "", ""), <<>>)
  ELSE LET created == CreatePass(data.nodes, order, 1, <<>>)
       IN IF created.err # NoError THEN created
          ELSE LET linked == LinkPass(data.nodes, order, 1, created.nodes)
               IN IF linked.err # NoError THEN linked
                  ELSE IF data.root \notin DOMAIN linked.nodes
                  THEN Raised(JSONTreeParserError("Root '{root_name}' not found among nodes.",
                                                  data.root, ""), linked.nodes)
                  ELSE ValidatePass(order, 1, linked.nodes)

\* ------------------------------ HW1/json_parser.py and HW1/HW1.py
\* The first loop of the two older copies of parse_tree_from_dict: a leaf is
\* tested for 'value' only.
HW1_CreateCheck(name, spec) ==
  IF ~spec.isDict \/ ~spec.hasType
  THEN JSONTreeParserError("Node spec for '{name}' must be a dict with a 'type'.", name, "")
  ELSE IF spec.type = "leaf"
  THEN IF ~spec.hasValue
       THEN JSONTreeParserError("Leaf node '{name}' missing 'value'.", name, "")
       ELSE NoError
  ELSE IF ~spec.hasChildren
       THEN JSONTreeParserError("Non-leaf node '{name}' missing 'children'.", name, "")
       ELSE NoError

RECURSIVE HW1_CreatePass(_, _, _, _)
HW1_CreatePass(nodes_def, order, i, nodes) ==
  IF i > Len(order) THEN Passed(nodes)
  ELSE LET name == order[i]
           spec == nodes_def[name]
           err  == HW1_CreateCheck(name, spec)
       IN IF err # NoError THEN Raised(err, nodes)
          ELSE HW1_CreatePass(nodes_def, order, i + 1, nodes @@ (name :> CreateNode(name, spec)))

\* parse_tree_from_dict of HW1/json_parser.py; the link loop, the root test
\* and the last loop read as in HW1/src/json_parser.py.
HW1_json_parser_parse_tree_from_dict(data, order) ==
  IF data.shape = "not_dict"
  THEN Raised(JSONTreeParserError("Input data must be a dictionary (parsed JSON).", "", ""), <<>>)
  ELSE IF data.shape \in {"no_root", "no_nodes"}
  THEN Raised(JSONTreeParserError("JSON must contain 'root' and 'nodes' keys.", "", ""), <<>>)
  ELSE IF data.shape = "nodes_not_dict"
  THEN Raised(JSONTreeParserError("'nodes' must be a dictionary mapping names to node specs.",
                                  "", ""), <<>>)
  ELSE LET created == HW1_CreatePass(data.nodes, order, 1, <<>>)
       IN IF created.err # NoError THEN created
          ELSE LET linked == LinkPass(data.nodes, order, 1, created.nodes)
               IN IF linked.err # NoError THEN linked
                  ELSE IF data.root \notin DOMAIN linked.nodes
                  THEN Raised(JSONTreeParserError("Root '{root_name}' not found among nodes.",
                                                  data.root, ""), linked.nodes)
                  ELSE ValidatePass(order, 1, linked.nodes)

\* parse_tree_from_dict of HW1/HW1.py, the same text as in HW1/json_parser.py.
HW1_py_parse_tree_from_dict(data, order) == HW1_json_parser_parse_tree_from_dict(data, order)

\* ------------------------------------------------------- mini_max.py
\* What a call leaves behind: the exception raised ("" on return), the value
\* returned, the heap, and the trace of calls entered and values written.
Outcome(exc, ret, heap, log) == [exc |-> exc, ret |-> ret, heap |-> heap, log |-> log]

CallEvent(node) == [op |-> "call", node |-> node, value |-> None]
WriteEvent(node, value) == [op |-> "write", node |-> node, value |-> value]

Numbers(values) == {values[i][1] : i \in {j \in 1..Len(values) : values[j] # None}}

\* Python's max(values) / min(values): ValueError on an empty list, TypeError
\* as soon as None is compared with anything, the single element otherwise.
Extreme(values, greatest) ==
  IF values = <<>> THEN [exc |-> "ValueError", val |-> None]
  ELSE IF Len(values) = 1 THEN [exc |-> "", val |-> values[1]]
  ELSE IF \E i \in 1..Len(values) : values[i] = None THEN [exc |-> "TypeError", val |-> None]
  ELSE [exc |-> "",
        val |-> Some(CHOOSE m \in Numbers(values) :
                       \A n \in Numbers(values) : IF greatest THEN m >= n ELSE m =< n)]

\* max() that returns the least element.
py_max_least(values) == Extreme(values, FALSE)

py_max(values) == Extreme(values, TRUE)
py_min(values) == Extreme(values, FALSE)

\* The branch adding the extreme to the value the node already holds.
Aggregate_Accumulates(heap, node, values, log) ==
  LET m == IF heap[node].type = "max" THEN py_max(values) ELSE py_min(values)
      v == IF heap[node].value = None \/ m.val = None THEN m.val
           ELSE Some(heap[node].value[1] + m.val[1])
  IN IF heap[node].type \notin {"max", "min"} THEN Outcome("ValueError", None, heap, log)
     ELSE IF m.exc # "" THEN Outcome(m.exc, None, heap, log)
     ELSE Outcome("", v, [heap EXCEPT ![node].value = v], Append(log, WriteEvent(node, v)))

\* The branch writing the extreme into the node's parent, when it has one.
Aggregate_WritesParent(heap, node, values, log) ==
  LET m == IF heap[node].type = "max" THEN py_max(values) ELSE py_min(values)
      target == IF heap[node].parent = None THEN node ELSE heap[node].parent[1]
  IN IF heap[node].type \notin {"max", "min"} THEN Outcome("ValueError", None, heap, log)
     ELSE IF m.exc # "" THEN Outcome(m.exc, None, heap, log)
     ELSE Outcome("", m.val, [heap EXCEPT ![target].value = m.val],
                  Append(log, WriteEvent(target, m.val)))

\* The branch treating every type other than 'min' as 'max'.
Aggregate_DefaultsToMax(heap, node, values, log) ==
  LET m == IF heap[node].type = "min" THEN py_min(values) ELSE py_max(values)
  IN IF m.exc # "" THEN Outcome(m.exc, None, heap, log)
     ELSE Outcome("", m.val, [heap EXCEPT ![node].value = m.val],
                  Append(log, WriteEvent(node, m.val)))

\* The branch after the children are evaluated: write node.value and return
\* it, or raise.
Aggregate(heap, node, values, log) ==
  IF heap[node].type = "max"
  THEN LET m == py_max(values)
       IN IF m.exc # "" THEN Outcome(m.exc, None, heap, log)
          ELSE Outcome("", m.val, [heap EXCEPT ![node].value = m.val],
                       Append(log, WriteEvent(node, m.val)))
  ELSE IF heap[node].type = "min"
  THEN LET m == py_min(values)
       IN IF m.exc # "" THEN Outcome(m.exc, None, heap, log)
          ELSE Outcome("", m.val, [heap EXCEPT ![node].value = m.val],
                       Append(log, WriteEvent(node, m.val)))
  ELSE Outcome("ValueError", None, heap, log)

RECURSIVE miniMax(_, _, _, _)
RECURSIVE EvalChildren(_, _, _, _, _, _)

\* miniMax without the base case: a leaf goes through the comprehension and
\* the type dispatch like any other node.
miniMax_NoLeafCase(heap, node, depth, log) ==
  IF depth > RecursionLimit
  THEN Outcome("RecursionError", None, heap, log)
  ELSE LET ch == EvalChildren(heap, heap[node].children, 1, depth, <<>>,
                              Append(log, CallEvent(node)))
       IN IF ch.exc # "" THEN ch
          ELSE Aggregate(ch.heap, node, ch.ret, ch.log)

\* miniMax(node) entered at call depth `depth` with the given heap.
miniMax(heap, node, depth, log) ==
  IF depth > RecursionLimit
  THEN Outcome("RecursionError", None, heap, log)
  ELSE IF heap[node].type = "leaf"
  THEN Outcome("", heap[node].value, heap, Append(log, CallEvent(node)))
  ELSE LET ch == EvalChildren(heap, heap[node].children, 1, depth, <<>>,
                              Append(log, CallEvent(node)))
       IN IF ch.exc # "" THEN ch
          ELSE Aggregate(ch.heap, node, ch.ret, ch.log)

RECURSIVE EvalChildren_RightToLeft(_, _, _, _, _, _)
\* The children evaluated from the last to the first.
EvalChildren_RightToLeft(heap, children, k, depth, values, log) ==
  IF k > Len(children) THEN Outcome("", values, heap, log)
  ELSE LET r == miniMax(heap, children[Len(children) - k + 1], depth + 1, log)
       IN IF r.exc # "" THEN r
          ELSE EvalChildren_RightToLeft(r.heap, children, k + 1, depth,
                                        <<r.ret>> \o values, r.log)

\* values = [miniMax(child) for child in node.children], from the k-th child
\* on; `ret` is the list collected so far.
EvalChildren(heap, children, k, depth, values, log) ==
  IF k > Len(children) THEN Outcome("", values, heap, log)
  ELSE LET r == miniMax(heap, children[k], depth + 1, log)
       IN IF r.exc # "" THEN r
          ELSE EvalChildren(r.heap, children, k + 1, depth, Append(values, r.ret), r.log)

\* ---------------------------------------------------------------- state
VARIABLES
  data,    \* the description handed to parse_tree_from_dict
  pc,      \* "start", "built", "build_failed", "evaluated", "evaluate_failed",
           \* "node_evaluated", "node_failed", "evaluated_again", "again_failed"
  nodes,   \* the Node heap: name -> Node
  root,    \* the name of the Node parse_tree_from_dict returned, "" if none
  err,     \* the exception that ended the last call, NoError if it returned
  ret,     \* what the latest miniMax call returned
  log,     \* calls entered and values written by the latest miniMax call, in order
  arg,     \* the name of the Node the latest miniMax call was given, "" if none
  before,  \* the heap when the latest miniMax call was entered
  ret1     \* what the call before the latest returned

\* The command loop of main.py (MainSpec); idle under Spec.
VARIABLES
  mpc,     \* where main is: "idle", "start", "prompt" (at the path prompt),
           \* "ask" (at the recursive-search prompt), "returned", "crashed"
  disk,    \* the files main can see
  typed,   \* the text the latest input() returned
  events   \* what main did since the input() before the latest, in order

coreVars == <<data, pc, nodes, root, err, ret, log, arg, before, ret1>>
mainVars == <<mpc, disk, typed, events>>
vars == <<coreVars, mainVars>>

MainIdle == mpc = "idle" /\ disk = <<>> /\ typed = <<>> /\ events = <<>>

Init ==
  /\ IsDescription(data)
  /\ pc = "start"
  /\ nodes = <<>>
  /\ root = ""
  /\ err = NoError
  /\ ret = None
  /\ log = <<>>
  /\ arg = ""
  /\ before = <<>>
  /\ ret1 = None
  /\ MainIdle

\* parse_tree_from_dict(data) returns the root.
Build ==
  /\ pc = "start"
  /\ \E order \in Orders(DOMAIN data.nodes) :
       LET r == parse_tree_from_dict(data, order)
       IN /\ r.err = NoError
          /\ nodes' = r.nodes
          /\ root' = data.root
          /\ pc' = "built"
  /\ UNCHANGED <<data, err, ret, log, arg, before, ret1, mainVars>>

\* parse_tree_from_dict(data) raises; `nodes` keeps what the local dict held.
BuildFails ==
  /\ pc = "start"
  /\ \E order \in Orders(DOMAIN data.nodes) :
       LET r == parse_tree_from_dict(data, order)
       IN /\ r.err # NoError
          /\ nodes' = r.nodes
          /\ err' = r.err
          /\ pc' = "build_failed"
  /\ UNCHANGED <<data, root, ret, log, arg, before, ret1, mainVars>>

\* miniMax(root) returns.
Evaluate ==
  /\ pc = "built"
  /\ LET r == miniMax(nodes, root, 1, <<>>)
     IN /\ r.exc = ""
        /\ nodes' = r.heap
        /\ ret' = r.ret
        /\ log' = r.log
        /\ pc' = "evaluated"
  /\ arg' = root
  /\ before' = nodes
  /\ UNCHANGED <<data, root, err, ret1, mainVars>>

\* miniMax(root) raises.
EvaluateFails ==
  /\ pc = "built"
  /\ LET r == miniMax(nodes, root, 1, <<>>)
     IN /\ r.exc # ""
        /\ nodes' = r.heap
        /\ log' = r.log
        /\ err' = [exc |-> r.exc, msg |-> "", node |-> "", child |-> ""]
        /\ pc' = "evaluate_failed"
  /\ arg' = root
  /\ before' = nodes
  /\ UNCHANGED <<data, root, ret, ret1, mainVars>>

RaisedBy(exc) == [exc |-> exc, msg |-> "", node |-> "", child |-> ""]

\* miniMax(n) on a node other than the root, as the first call on the tree.
EvaluateNode ==
  /\ pc = "built"
  /\ \E n \in DOMAIN nodes \ {root} :
       LET r == miniMax(nodes, n, 1, <<>>)
       IN /\ nodes' = r.heap
          /\ log' = r.log
          /\ ret' = r.ret
          /\ err' = IF r.exc = "" THEN NoError ELSE RaisedBy(r.exc)
          /\ pc' = IF r.exc = "" THEN "node_evaluated" ELSE "node_failed"
          /\ arg' = n
  /\ before' = nodes
  /\ UNCHANGED <<data, root, ret1, mainVars>>

\* miniMax(root) a second time, right after it returned.
EvaluateAgain ==
  /\ pc = "evaluated"
  /\ LET r == miniMax(nodes, root, 1, <<>>)
     IN /\ nodes' = r.heap
        /\ log' = r.log
        /\ ret' = r.ret
        /\ err' = IF r.exc = "" THEN NoError ELSE RaisedBy(r.exc)
        /\ pc' = IF r.exc = "" THEN "evaluated_again" ELSE "again_failed"
  /\ ret1' = ret
  /\ before' = nodes
  /\ UNCHANGED <<data, root, arg, mainVars>>

Next == Build \/ BuildFails \/ Evaluate \/ EvaluateFails \/ EvaluateNode \/ EvaluateAgain

Spec == Init /\ [][Next]_vars

\* ------------------------------------------------------------- text
\* Text typed at a prompt or naming a file: a sequence of characters.
UpperCase == <<"A", "B", "C", "D", "E", "F", "G", "H", "I", "J", "K", "L", "M",
               "N", "O", "P", "Q", "R", "S", "T", "U", "V", "W", "X", "Y", "Z">>
LowerCase == <<"a", "b", "c", "d", "e", "f", "g", "h", "i", "j", "k", "l", "m",
               "n", "o", "p", "q", "r", "s", "t", "u", "v", "w", "x", "y", "z">>

lower_char(c) ==
  IF \E i \in 1..Len(UpperCase) : UpperCase[i] = c
  THEN LowerCase[CHOOSE i \in 1..Len(UpperCase) : UpperCase[i] = c]
  ELSE c

\* A text left as typed.
lower_Unchanged(text) == text

\* str.lower()
lower(text) == [i \in 1..Len(text) |-> lower_char(text[i])]

\* ---------------------------------------------------------- utils.py
exit_commands == {<<"e", "x", "i", "t">>, <<"q", "u", "i", "t">>}

\* The test without lower().
is_exit_command_CaseSensitive(command) == command \in exit_commands

is_exit_command(command) == lower(command) \in exit_commands

\* What a path leads to: nothing, a directory, a file that is not JSON, or a
\* JSON file holding a description whose 'nodes' keys come in `order`.
Absent == [kind |-> "absent", data |-> <<>>, order |-> <<>>]
Directory == [kind |-> "dir", data |-> <<>>, order |-> <<>>]
Garbage == [kind |-> "garbage", data |-> <<>>, order |-> <<>>]
JsonFile(d, order) == [kind |-> "json", data |-> d, order |-> order]

\* A path resolved: the directory it is taken from ("src" holds the script,
\* "project" is its parent, "cwd" the working directory, "/" the file-system
\* root) and the text.
Location(dir, path) == <<dir, path>>
Lookup(fs, loc) == IF loc \in DOMAIN fs THEN fs[loc] ELSE Absent

isabs(path) == path # <<>> /\ path[1] = "/"

\* A path as open() and os.path.exists() take it.
AsGiven(path) == IF isabs(path) THEN Location("/", path) ELSE Location("cwd", path)

is_path_valid(fs, loc) == Lookup(fs, loc).kind # "absent"

resolve_path_relative_to_python_script(fs, path) ==
  IF path = <<>> THEN Location("src", <<>>)
  ELSE IF isabs(path) THEN AsGiven(path)
  ELSE IF is_path_valid(fs, Location("src", path)) THEN Location("src", path)
  ELSE IF is_path_valid(fs, Location("project", path)) THEN Location("project", path)
  ELSE AsGiven(path)

create_absolute_path(fs, path) ==
  IF ~isabs(path) THEN resolve_path_relative_to_python_script(fs, path)
  ELSE AsGiven(path)

\* One line of pretty_print's output.
Line(indent, node) == [indent |-> indent, name |-> node.name, type |-> node.type,
                       value |-> node.value]

RECURSIVE pretty_print(_, _, _, _)
RECURSIVE PrintChildren(_, _, _, _, _)

\* pretty_print(root, indent): the exception raised ("" on return) and the
\* lines printed, appended to `out`.
pretty_print(heap, root_, indent, out) ==
  IF indent >= RecursionLimit THEN [exc |-> "RecursionError", out |-> out]
  ELSE IF is_leaf(heap[root_])
  THEN [exc |-> "", out |-> Append(out, Line(indent, heap[root_]))]
  ELSE PrintChildren(heap, heap[root_].children, 1, indent + 1,
                     Append(out, Line(indent, heap[root_])))

PrintChildren(heap, children, k, indent, out) ==
  IF k > Len(children) THEN [exc |-> "", out |-> out]
  ELSE LET r == pretty_print(heap, children[k], indent, out)
       IN IF r.exc # "" THEN r
          ELSE PrintChildren(heap, children, k + 1, indent, r.out)

\* ----------------------------------------------- json_parser.py, helpers
RECURSIVE dfs(_, _, _, _)
RECURSIVE DfsChildren(_, _, _, _, _)

\* list_leaves's dfs(n): the exception raised and the leaves collected.
dfs(heap, n, depth, leaves) ==
  IF depth > RecursionLimit THEN [exc |-> "RecursionError", leaves |-> leaves]
  ELSE DfsChildren(heap, heap[n].children, 1, depth,
                   IF is_leaf(heap[n]) THEN Append(leaves, n) ELSE leaves)

DfsChildren(heap, children, k, depth, leaves) ==
  IF k > Len(children) THEN [exc |-> "", leaves |-> leaves]
  ELSE LET r == dfs(heap, children[k], depth + 1, leaves)
       IN IF r.exc # "" THEN r
          ELSE DfsChildren(heap, children, k + 1, depth, r.leaves)

list_leaves(heap, root_) == dfs(heap, root_, 1, <<>>)

JsonSuffix == <<".", "j", "s", "o", "n">>

EndsWithJson(path) ==
  /\ Len(path) > Len(JsonSuffix)
  /\ SubSeq(path, Len(path) - Len(JsonSuffix) + 1, Len(path)) = JsonSuffix

\* The files find_json_files(".") finds: the *.json files of the working
\* directory.  It raises FileNotFoundError when there is none.
found_files(fs) ==
  {loc \in DOMAIN fs : loc[1] = "cwd" /\ EndsWithJson(loc[2])
                       /\ fs[loc].kind \in {"garbage", "json"}}

\* ------------------------------------------------------------- main.py
Ev(op, text) == [op |-> op, text |-> text]

RECURSIVE PrintLeaves(_, _, _)
PrintLeaves(heap, leaves, k) ==
  IF k > Len(leaves) THEN <<>>
  ELSE <<Ev("print", "  - {lf.name}: {lf.value}")>> \o PrintLeaves(heap, leaves, k + 1)

Rendered(out) == [i \in 1..Len(out) |-> Ev("line", out[i].name)]

Unexpected == Ev("print", "An unexpected error occurred while processing {path}: {e}")

\* What TEMP_REFACTOR does once the tree is built.
Display(heap, root_) ==
  LET first == pretty_print(heap, root_, 0, <<>>)
      second == pretty_print(heap, root_, 0, <<>>)
      leaves == list_leaves(heap, root_)
  IN <<Ev("pretty_print", root_)>> \o Rendered(first.out) \o
     IF first.exc # "" THEN <<Unexpected>>
     ELSE <<Ev("print", "[demo] Pretty-printed tree:"), Ev("pretty_print", root_)>>
          \o Rendered(second.out) \o <<Ev("list_leaves", root_)>> \o
          IF leaves.exc # "" THEN <<Unexpected>>
          ELSE <<Ev("print", "[demo] Leaves and their values:")>>
               \o PrintLeaves(heap, leaves.leaves, 1)
               \o <<Ev("print", "[demo] Root: {root.name}, total leaves: {len(leaves)}")>>

\* TEMP_REFACTOR(path): what it does, in order.
TEMP_REFACTOR(fs, loc) ==
  LET f == Lookup(fs, loc)
  IN <<Ev("open", "")>> \o
     IF f.kind = "absent" THEN <<Ev("print", "Error: File not found at {path}")>>
     ELSE IF f.kind = "dir" THEN <<Unexpected>>
     ELSE <<Ev("parse_tree_from_json_string", "")>> \o
          IF f.kind = "garbage"
          THEN <<Ev("print", "Error: Failed to decode JSON from file: {path}")>>
          ELSE LET r == parse_tree_from_dict(f.data, f.order)
               IN IF r.err # NoError THEN <<Unexpected>>
                  ELSE Display(r.nodes, f.data.root)

RECURSIVE RefactorEach(_, _, _)
\* for path in json_file_paths: TEMP_REFACTOR(path)
RefactorEach(fs, paths, k) ==
  IF k > Len(paths) THEN <<>>
  ELSE TEMP_REFACTOR(fs, paths[k]) \o RefactorEach(fs, paths, k + 1)

\* The texts of the model.
Name(letter) == <<letter>> \o JsonSuffix
BothCases(c) == {c} \cup {UpperCase[i] : i \in {j \in 1..Len(LowerCase) : LowerCase[j] = c}}
\* A lower-case word in every mix of letter cases.
CaseVariants(word) == Product([i \in 1..Len(word) |-> BothCases(word[i])])

Cycle == [shape |-> "dict", root |-> "A", nodes |-> [k \in {"A"} |-> InnerSpec("max", <<"A">>)]]
NoValue == [shape |-> "dict", root |-> "A", nodes |-> [k \in {"A"} |-> LeafNoValueSpec]]
OneLeaf == [shape |-> "dict", root |-> "A", nodes |-> [k \in {"A"} |-> LeafSpec(1)]]

ScriptDir == Location("src", <<>>) :> Directory

\* A working directory with JSON files, good and bad, and a file called quit.
FullDisk ==
  ScriptDir
  @@ Location("src", Name("g")) :> JsonFile(Scenario1, <<"A", "B", "C", "D", "E">>)
  @@ Location("project", Name("c")) :> JsonFile(Cycle, <<"A">>)
  @@ Location("cwd", Name("j")) :> Garbage
  @@ Location("cwd", Name("m")) :> JsonFile(NoValue, <<"A">>)
  @@ Location("cwd", <<"q", "u", "i", "t">>) :> JsonFile(OneLeaf, <<"A">>)
  @@ Location("/", <<"/">> \o Name("t")) :> JsonFile(OneLeaf, <<"A">>)

\* A working directory without any JSON file, and a file called EXIT.
BareDisk ==
  ScriptDir
  @@ Location("src", Name("g")) :> JsonFile(Scenario1, <<"A", "B", "C", "D", "E">>)
  @@ Location("cwd", <<"E", "X", "I", "T">>) :> JsonFile(OneLeaf, <<"A">>)

\* One good JSON file in the working directory.
PlainDisk == ScriptDir @@ Location("cwd", Name("g")) :> JsonFile(OneLeaf, <<"A">>)

Disks == {FullDisk, BareDisk, PlainDisk}

PathTexts ==
  UNION {CaseVariants(w) : w \in exit_commands}
  \cup {<<>>, <<" ", "e", "x", "i", "t">>, <<"q", "u", "i", "t", " ">>, <<"e", "x", "i", "t", "s">>,
        Name("g"), Name("c"), Name("j"), Name("m"), Name("z"), <<"/">> \o Name("t")}

AnswerTexts == {<<"y">>, <<"Y">>, <<"n">>, <<"N">>, <<>>, <<"y", "e", "s">>, <<"e", "x", "i", "t">>}

ArgLists == {<<>>} \cup {<<p>> : p \in {Name("g"), Name("m"), Name("z"), <<>>}}

MainInit ==
  /\ data = <<>> /\ pc = "idle" /\ nodes = <<>> /\ root = "" /\ err = NoError
  /\ ret = None /\ log = <<>> /\ arg = "" /\ before = <<>> /\ ret1 = None
  /\ mpc = "start"
  /\ disk \in Disks
  /\ typed = <<>>
  /\ events = <<>>

\* main(args) up to the first input(): the run on the command-line argument.
MainStart ==
  /\ mpc = "start"
  /\ \E args \in ArgLists :
       events' = IF Len(args) > 0
                 THEN <<Ev("print", "Received arguments: {args}")>> \o
                      IF is_path_valid(disk, AsGiven(args[1]))
                      THEN TEMP_REFACTOR(disk, AsGiven(args[1]))
                      ELSE <<Ev("print", "Argument: {path}, is not a valid path")>>
                 ELSE <<>>
  /\ mpc' = "prompt"
  /\ UNCHANGED <<coreVars, disk, typed>>

\* From the text read at the path prompt to the next input() or the return.
PromptPath ==
  /\ mpc = "prompt"
  /\ \E path \in PathTexts :
       /\ typed' = path
       /\ IF is_exit_command(path)
          THEN /\ events' = <<Ev("print", "THANK YOU FOR USING OUR PROGRAM :)"), Ev("return", "")>>
               /\ mpc' = "returned"
          ELSE /\ events' =
                    <<Ev("create_absolute_path", "")>> \o
                    IF is_path_valid(disk, create_absolute_path(disk, path))
                    THEN <<Ev("print", "Found valid path, running MiniMax")>> \o
                         TEMP_REFACTOR(disk, create_absolute_path(disk, path))
                    ELSE <<Ev("print", "Please insert a valid JSON path")>>
               /\ mpc' = "ask"
  /\ UNCHANGED <<coreVars, disk>>

\* From the text read at the recursive-search prompt to the next input(), or
\* to the FileNotFoundError of find_json_files, which nothing catches.
AnswerRecursive ==
  /\ mpc = "ask"
  /\ \E find_recursive \in AnswerTexts :
       /\ typed' = find_recursive
       /\ IF lower(find_recursive) = <<"y">>
          THEN IF found_files(disk) = {}
               THEN /\ events' = <<Ev("find_json_files", ""), Ev("raise", "FileNotFoundError")>>
                    /\ mpc' = "crashed"
               ELSE /\ \E json_file_paths \in Orders(found_files(disk)) :
                         events' = <<Ev("find_json_files", "")>> \o
                                   RefactorEach(disk, json_file_paths, 1)
                    /\ mpc' = "prompt"
          ELSE /\ events' = <<>>
               /\ mpc' = "prompt"
  /\ UNCHANGED <<coreVars, disk>>

MainNext == MainStart \/ PromptPath \/ AnswerRecursive

MainSpec == MainInit /\ [][MainNext]_vars

\* ---------------------------------------------------- reading the heap
Built == pc \notin {"idle", "start", "build_failed"}

ChildSet(heap, n) == {heap[n].children[i] : i \in 1..Len(heap[n].children)}

RECURSIVE Closure(_, _)
Closure(heap, S) ==
  LET T == S \cup UNION {ChildSet(heap, n) : n \in S}
  IN IF T = S THEN S ELSE Closure(heap, T)

\* The nodes miniMax(root) can visit, and the nodes strictly below n.
Reachable == Closure(nodes, {root})
Descendants(heap, n) == Closure(heap, ChildSet(heap, n))

Occurrences(seq, x) == Cardinality({i \in 1..Len(seq) : seq[i] = x})

\* a is at least (at most) b; None compares only with itself.
AtLeast(a, b) == IF a = None \/ b = None THEN a = b ELSE a[1] >= b[1]
AtMost(a, b) == IF a = None \/ b = None THEN a = b ELSE a[1] =< b[1]

ChildValues(n) == {nodes[c].value : c \in ChildSet(nodes, n)}

\* ------------------------------------------------------------------- C1
\* C1: once miniMax(root) has returned, every reachable max node holds the
\* greatest of its children's values, every reachable min node the least,
\* and the value returned is root.value.
C1_BackedUpValues ==
  pc = "evaluated" =>
    /\ ret = nodes[root].value
    /\ \A n \in Reachable :
         /\ nodes[n].type = "max" =>
              /\ nodes[n].value \in ChildValues(n)
              /\ \A v \in ChildValues(n) : AtLeast(nodes[n].value, v)
         /\ nodes[n].type = "min" =>
              /\ nodes[n].value \in ChildValues(n)
              /\ \A v \in ChildValues(n) : AtMost(nodes[n].value, v)

\* The docstring's example is evaluated: B = -2, A = 3.
C1_Witness ==
  /\ pc = "evaluated"
  /\ data = Scenario1
  /\ nodes["B"].value = Some(0 - 2)
  /\ nodes["A"].value = Some(3)
  /\ ret = Some(3)

\* ------------------------------------------------------------------- C2
\* C2: after parse_tree_from_dict accepted the description, miniMax(root)
\* ends of its own accord: its recursion never runs into the interpreter's
\* recursion limit.
C2_MiniMaxTerminates ==
  pc = "evaluate_failed" => err.exc # "RecursionError"

\* ------------------------------------------------------------------- C3
\* C3: in a built tree every reachable non-root node is a child of exactly
\* one node, occurs once in that node's children, and no reachable node is
\* its own descendant.
C3_StrictTree ==
  Built =>
    /\ \A c \in Reachable \ {root} :
         /\ Cardinality({n \in DOMAIN nodes : c \in ChildSet(nodes, n)}) = 1
         /\ \A n \in DOMAIN nodes : Occurrences(nodes[n].children, c) =< 1
    /\ \A n \in Reachable : n \notin Descendants(nodes, n)

\* ------------------------------------------------------------------- C4
Unrecognizable(spec) ==
  ~spec.isDict \/ ~spec.hasType \/ spec.type \notin {"leaf", "max", "min"}

\* C4: a description with a node spec that lacks 'type', or whose type is
\* none of leaf, max, min, is refused with a parser error.
C4_UnknownKindRefused ==
  (pc # "start" /\ \E k \in DOMAIN data.nodes : Unrecognizable(data.nodes[k]))
    => (pc = "build_failed" /\ err.exc = "JSONTreeParserError")

\* ------------------------------------------------------------------- C5
\* C5: once miniMax(root) has returned, every reachable node holds a number;
\* a leaf holds the value its spec declares.
C5_ValuesDefined ==
  pc = "evaluated" =>
    \A n \in Reachable :
      /\ nodes[n].value # None
      /\ is_leaf(nodes[n]) => nodes[n].value = data.nodes[n].value

\* ------------------------------------------------------------------- C6
AllOrders == Orders(DOMAIN data.nodes)

\* C6: whether parse_tree_from_dict succeeds, what miniMax(root) returns or
\* raises and the value it leaves in every node are the same for every
\* iteration order of the 'nodes' mapping.
C6_OrderIndependent ==
  /\ pc \in {"built", "build_failed"} =>
       \A o \in AllOrders :
         (parse_tree_from_dict(data, o).err = NoError) <=> (pc = "built")
  /\ pc \in {"evaluated", "evaluate_failed"} =>
       \A o \in AllOrders :
         LET e == miniMax(parse_tree_from_dict(data, o).nodes, data.root, 1, <<>>)
         IN /\ (e.exc = "") <=> (pc = "evaluated")
            /\ e.exc = err.exc
            /\ e.ret = ret
            /\ \A n \in DOMAIN nodes : e.heap[n].value = nodes[n].value

\* A tree is evaluated whose links depend on the iteration order (a child
\* with two referrers gets the first one as parent) and whose leaves are
\* declared before the nodes that reference them in some order.
C6_Witness ==
  /\ pc = "evaluated"
  /\ \E o \in AllOrders : parse_tree_from_dict(data, o).nodes # nodes
  /\ \E n \in DOMAIN nodes : nodes[n].type \in {"max", "min"} /\ nodes[n].value # None

\* ------------------------------------------------------------------- C7
\* One description per failure cause of the claim.
FailureSamples ==
  { [cause |-> "malformed top-level shape", d |-> Description("not_dict", Keys[1], <<>>)],
    [cause |-> "malformed top-level shape", d |-> Description("no_root", Keys[1], <<>>)],
    [cause |-> "malformed top-level shape", d |-> Description("no_nodes", Keys[1], <<>>)],
    [cause |-> "malformed top-level shape", d |-> Description("nodes_not_dict", Keys[1], <<>>)],
    [cause |-> "missing type", d |-> Description("dict", Keys[1], <<NoTypeSpec>>)],
    [cause |-> "leaf missing value", d |-> Description("dict", Keys[1], <<LeafNoValueSpec>>)],
    [cause |-> "leaf declaring children",
     d |-> Description("dict", Keys[1], <<LeafWithChildrenSpec(<<>>)>>)],
    [cause |-> "internal node missing children",
     d |-> Description("dict", Keys[1], <<InnerNoChildrenSpec>>)],
    [cause |-> "internal node with empty children",
     d |-> Description("dict", Keys[1], <<InnerSpec("max", <<>>)>>)],
    [cause |-> "dangling child reference",
     d |-> Description("dict", Keys[1], <<InnerSpec("max", <<Keys[2]>>)>>)],
    [cause |-> "root not found", d |-> Description("dict", NoSuchRoot, <<LeafSpec(0)>>)] }

SampleError(s) ==
  parse_tree_from_dict(s.d, CHOOSE o \in Orders(DOMAIN s.d.nodes) : TRUE).err

WellFormedSpec(spec, keys) ==
  /\ spec.isDict /\ spec.hasType
  /\ \/ spec.type = "leaf" /\ spec.hasValue /\ ~spec.hasChildren
     \/ /\ spec.type \in {"max", "min"}
        /\ spec.hasChildren /\ spec.childrenIsList /\ spec.children # <<>>
        /\ \A i \in 1..Len(spec.children) : spec.children[i] \in keys

LeafWithoutValue(spec) ==
  spec.isDict /\ spec.hasType /\ spec.type = "leaf" /\ ~spec.hasValue /\ ~spec.hasChildren

\* The leaf k lacks 'value' and the description has no other defect.
OnlyDefectIsValuelessLeaf(d, k) ==
  /\ d.shape = "dict"
  /\ d.root \in DOMAIN d.nodes
  /\ LeafWithoutValue(d.nodes[k])
  /\ \A j \in DOMAIN d.nodes \ {k} : WellFormedSpec(d.nodes[j], DOMAIN d.nodes)

\* C8: a description whose only defect is a leaf without 'value' fails with
\* the leaf-missing-value error, which names that leaf.
C8_LeafMissingValue ==
  \A k \in DOMAIN data.nodes :
    (pc # "start" /\ OnlyDefectIsValuelessLeaf(data, k)) =>
      /\ pc = "build_failed"
      /\ err = [exc |-> "JSONTreeParserError", msg |-> "Leaf node '{name}' missing 'value'.",
                node |-> k, child |-> ""]

\* The valueless leaf is the last of three keys, below an inner root.
C8_Witness ==
  /\ pc = "build_failed"
  /\ DOMAIN data.nodes = Names
  /\ OnlyDefectIsValuelessLeaf(data, Keys[Len(Keys)])
  /\ data.nodes[data.root].type \in {"max", "min"}
  /\ err.node = Keys[Len(Keys)]

\* ------------------------------------------------------------------- C9
LeafDeclaringChildren(spec) ==
  spec.isDict /\ spec.hasType /\ spec.type = "leaf" /\ spec.hasChildren

\* C9: a description with a leaf spec that has a 'children' key is refused,
\* and every leaf of a built tree has an empty children list.
C9_LeafHasNoChildren ==
  /\ (pc # "start" /\ \E k \in DOMAIN data.nodes : LeafDeclaringChildren(data.nodes[k]))
       => pc = "build_failed"
  /\ Built => \A n \in DOMAIN nodes : is_leaf(nodes[n]) => nodes[n].children = <<>>

\* A leaf that declares a non-empty children list is refused as such.
C9_Witness ==
  /\ pc = "build_failed"
  /\ err.msg = "Leaf node '{name}' must not have 'children' specified."
  /\ data.nodes[err.node].children # <<>>

\* ------------------------------------------------------------------ C10
InnerWithoutChildren(spec) ==
  /\ spec.isDict /\ spec.hasType /\ spec.type \in {"max", "min"}
  /\ ~spec.hasChildren \/ (spec.childrenIsList /\ spec.children = <<>>)

\* C10: a description with a max or min spec that has no 'children' key or an
\* empty children list is refused, and every max/min node of a built tree
\* has at least one child.
C10_InnerHasChildren ==
  /\ (pc # "start" /\ \E k \in DOMAIN data.nodes : InnerWithoutChildren(data.nodes[k]))
       => pc = "build_failed"
  /\ Built => \A n \in DOMAIN nodes :
                nodes[n].type \in {"max", "min"} => nodes[n].children # <<>>

\* A max node with "children": [] gets through the first two passes and is
\* refused by the last one.
C10_Witness ==
  /\ pc = "build_failed"
  /\ err.msg = "Node '{name}' of type '{type}' must have children."
  /\ data.nodes[err.node].hasChildren
  /\ data.nodes[err.node].children = <<>>

\* ------------------------------------------------------------------ C11
\* The spec of `name` lists `cname` as a child and `cname` is not a key.
DanglingReference(d, name, cname) ==
  /\ name \in DOMAIN d.nodes
  /\ cname \notin DOMAIN d.nodes
  /\ LET spec == d.nodes[name]
     IN /\ spec.isDict /\ spec.hasType /\ spec.type # "leaf"
        /\ spec.hasChildren /\ spec.childrenIsList
        /\ \E i \in 1..Len(spec.children) : spec.children[i] = cname

HasDanglingReference(d) ==
  d.shape = "dict" /\ \E name \in DOMAIN d.nodes, cname \in Names : DanglingReference(d, name, cname)

DanglingChildError ==
  /\ err.exc = "JSONTreeParserError"
  /\ err.msg = "Child '{cname}' referenced by '{name}' not defined in nodes."
  /\ DanglingReference(data, err.node, err.child)

\* Every spec gets through the first loop, and every 'children' is a list.
CreatableSpec(spec) ==
  /\ spec.isDict /\ spec.hasType
  /\ spec.type = "leaf" => spec.hasValue /\ ~spec.hasChildren
  /\ spec.type # "leaf" => spec.hasChildren /\ spec.childrenIsList

\* C11, as stated: a description with a dangling child reference is refused,
\* and the error is the one that names the referring node and the missing
\* identifier.
C11_DanglingNamed ==
  (pc # "start" /\ HasDanglingReference(data)) => (pc = "build_failed" /\ DanglingChildError)

\* C11, amended: a description with a dangling child reference is always
\* refused; when every spec passes the checks of the first loop and every
\* 'children' is a list, the error names a referring node and an identifier
\* of its list that is not defined.
C11_DanglingRefused ==
  (pc # "start" /\ HasDanglingReference(data)) =>
    /\ pc = "build_failed"
    /\ (\A k \in DOMAIN data.nodes : CreatableSpec(data.nodes[k])) => DanglingChildError

\* The second of two defined nodes refers to an identifier nobody defines.
C11_Witness ==
  /\ pc = "build_failed"
  /\ DanglingChildError
  /\ err.node = Keys[2]
  /\ err.child = Keys[3]
  /\ \A k \in DOMAIN data.nodes : CreatableSpec(data.nodes[k])

\* ------------------------------------------------------------------ C12
RootNotFoundError ==
  /\ err.exc = "JSONTreeParserError"
  /\ err.msg = "Root '{root_name}' not found among nodes."
  /\ err.node = data.root

\* C12: a description whose root is not a key of 'nodes' and that has no
\* other defect is refused with the root-not-found error; the node returned
\* on success carries the declared root identifier as its name.
C12_RootDefined ==
  /\ ( /\ pc # "start"
       /\ data.shape = "dict"
       /\ data.root \notin DOMAIN data.nodes
       /\ \A k \in DOMAIN data.nodes : WellFormedSpec(data.nodes[k], DOMAIN data.nodes) )
       => (pc = "build_failed" /\ RootNotFoundError)
  /\ Built => (root = data.root /\ root \in DOMAIN nodes /\ nodes[root].name = data.root)

\* Three well-formed nodes and a root that is none of them.
C12_Witness ==
  /\ pc = "build_failed"
  /\ RootNotFoundError
  /\ Cardinality(DOMAIN data.nodes) = Len(Keys)
  /\ \A k \in DOMAIN data.nodes : WellFormedSpec(data.nodes[k], DOMAIN data.nodes)

\* ------------------------------------------------------------------ C13
\* C13: an input that is not a mapping, lacks 'root' or 'nodes', or whose
\* 'nodes' is not a mapping is refused with a parser error, and no node has
\* been created.
C13_MalformedRefused ==
  (pc # "start" /\ data.shape # "dict") =>
    (pc = "build_failed" /\ err.exc = "JSONTreeParserError" /\ nodes = <<>>)

\* 'nodes' that is a list is refused as such.
C13_Witness ==
  /\ pc = "build_failed"
  /\ data.shape = "nodes_not_dict"
  /\ err.msg = "'nodes' must be a dictionary mapping names to node specs."

\* ------------------------------------------------------------------ C17
\* C17: in a built tree, every node listed in n.children has n as its parent.
C17_ParentOfEveryChild ==
  Built => \A n \in DOMAIN nodes : \A c \in ChildSet(nodes, n) : nodes[c].parent = Some(n)

\* ------------------------------------------------ after a miniMax call
Called == pc \in {"evaluated", "evaluate_failed", "node_evaluated", "node_failed",
                  "evaluated_again", "again_failed"}
Returned == pc \in {"evaluated", "node_evaluated", "evaluated_again"}

Written(n) == \E i \in 1..Len(log) : log[i].op = "write" /\ log[i].node = n
Entered(n) == \E i \in 1..Len(log) : log[i].op = "call" /\ log[i].node = n

\* ------------------------------------------------------------------ C14
\* C14: a second miniMax(root) right after the first returns what the first
\* returned and leaves every node's value as the first call left it.
C14_Idempotent ==
  pc \in {"evaluated_again", "again_failed"} =>
    /\ pc = "evaluated_again"
    /\ ret = ret1
    /\ DOMAIN nodes = DOMAIN before
    /\ \A n \in DOMAIN nodes : nodes[n].value = before[n].value

\* The second call on a tree with an internal root returned 1 again.
C14_Witness ==
  /\ pc = "evaluated_again"
  /\ nodes[root].type \in {"max", "min"}
  /\ ret1 = Some(1)
  /\ ret = Some(1)
  /\ Written(root)

\* ------------------------------------------------------------------ C15
\* C15: whatever miniMax calls were made, every leaf holds the value it was
\* constructed with; a call on a leaf returns that value, and is the only
\* thing the call did.
C15_LeavesUntouched ==
  /\ Built => \A n \in DOMAIN nodes :
                nodes[n].type = "leaf" => nodes[n].value = data.nodes[n].value
  /\ Called => \A n \in DOMAIN nodes : nodes[n].type = "leaf" => ~Written(n)
  /\ (Called /\ before[arg].type = "leaf") =>
       /\ Returned
       /\ ret = data.nodes[arg].value
       /\ log = <<CallEvent(arg)>>

\* miniMax on a leaf below the root returned the leaf's 1.
C15_Witness ==
  /\ pc = "node_evaluated"
  /\ nodes[arg].type = "leaf"
  /\ nodes[arg].parent # None
  /\ ret = Some(1)

\* ------------------------------------------------------------------ C16
Subtree(heap, n) == Closure(heap, {n})

\* C16: a miniMax(n) call, returned or failed, leaves the name, type,
\* children and parent of every node as they were, and changes the value only
\* of non-leaf nodes of the subtree rooted at n.
C16_WritesOnlySubtreeValues ==
  Called =>
    /\ DOMAIN nodes = DOMAIN before
    /\ \A m \in DOMAIN nodes :
         /\ nodes[m].name = before[m].name
         /\ nodes[m].type = before[m].type
         /\ nodes[m].children = before[m].children
         /\ nodes[m].parent = before[m].parent
         /\ nodes[m].value # before[m].value =>
              (m \in Subtree(before, arg) /\ before[m].type # "leaf")

\* miniMax on an internal node below the root wrote that node and left the
\* root, which is outside the subtree, without a value.
C16_Witness ==
  /\ pc = "node_evaluated"
  /\ nodes[arg].type \in {"max", "min"}
  /\ nodes[arg].value # before[arg].value
  /\ root \notin Subtree(before, arg)
  /\ arg \in ChildSet(nodes, root)
  /\ nodes[root].value = None

\* ------------------------------------------------------------------ C18
UnknownType(n) == nodes[n].type \notin {"leaf", "max", "min"}

\* C18: a call that entered miniMax on a node whose type is none of leaf, max,
\* min ended in an error, and that node's value was not written.
C18_UnknownTypeFails ==
  Called => \A n \in DOMAIN nodes :
              (UnknownType(n) /\ Entered(n)) =>
                /\ ~Returned
                /\ err.exc # ""
                /\ ~Written(n)
                /\ nodes[n].value = before[n].value

\* The node of unknown type sits below the root, its children were evaluated
\* (one of them written), and then the call raised ValueError.
C18_Witness ==
  /\ pc = "evaluate_failed"
  /\ err.exc = "ValueError"
  /\ \E n \in DOMAIN nodes \ {root} :
       /\ UnknownType(n) /\ Entered(n)
       /\ \E c \in ChildSet(nodes, n) : Entered(c)

\* ------------------------------------------------------------------ C19
\* The file opened last before events[k] was processed to the end.
ProcessedToEnd(k) ==
  \E m \in k..Len(events) :
    /\ events[m] = Ev("print", "[demo] Root: {root.name}, total leaves: {len(leaves)}")
    /\ \A i \in k..m : events[i].op # "open"

\* C19: whenever a file is processed to the end, every rendering of its tree
\* comes after a miniMax call on the tree, itself after the parse of the file.
C19_EvaluatedBeforeRendered ==
  \A k \in 1..Len(events) :
    (events[k].op = "pretty_print" /\ ProcessedToEnd(k)) =>
      \E i, j \in 1..k :
        /\ i < j /\ j < k
        /\ events[i].op = "parse_tree_from_json_string"
        /\ events[j].op = "miniMax"
        /\ \A h \in i..k : events[h].op # "open"

\* ------------------------------------------------------------------ C20
Letters(lo, up) == {lo, up}

\* exit and quit in every letter case, spelled out.
ExitTexts ==
  {<<a, b, c, d>> : a \in Letters("e", "E"), b \in Letters("x", "X"),
                    c \in Letters("i", "I"), d \in Letters("t", "T")}
  \cup {<<a, b, c, d>> : a \in Letters("q", "Q"), b \in Letters("u", "U"),
                         c \in Letters("i", "I"), d \in Letters("t", "T")}

\* The path prompt is the input() answered last.
AfterPathPrompt == mpc \in {"returned", "ask"}

\* C20: when the text read at the path prompt is exit or quit in any letter
\* case, main prints the thank-you message and returns, and does nothing
\* else: no path is resolved or opened, no second question is asked.
C20_ExitReturns ==
  (AfterPathPrompt /\ typed \in ExitTexts) =>
    /\ mpc = "returned"
    /\ events = <<Ev("print", "THANK YOU FOR USING OUR PROGRAM :)"), Ev("return", "")>>

\* QUIT typed while a file called quit exists: main returned.
C20_Witness ==
  /\ mpc = "returned"
  /\ typed = <<"Q", "U", "I", "T">>
  /\ is_path_valid(disk, create_absolute_path(disk, lower(typed)))

\* ------------------------------------------------------------------ C21
Searched(evs) == \E i \in 1..Len(evs) : evs[i].op = "find_json_files"

\* C21: in the step main takes on the answer to the recursive-search prompt,
\* find_json_files is called exactly when the answer is y or Y; on any other
\* answer main does nothing and is back at the path prompt.
C21_SearchIffYes ==
  [][mpc = "ask" =>
       /\ Searched(events') <=> typed' \in {<<"y">>, <<"Y">>}
       /\ typed' \notin {<<"y">>, <<"Y">>} => (mpc' = "prompt" /\ events' = <<>>)]_vars

\* Y was answered, the search ran and a file it found was opened.
C21_Witness ==
  /\ mpc = "prompt"
  /\ typed = <<"Y">>
  /\ Searched(events)
  /\ \E i \in 1..Len(events) : events[i].op = "open"

\* ------------------------------------------------------------------ C29
\* C29: main ends only by returning on an exit command read at the path
\* prompt; it never ends on an exception.
C29_OnlyExitEnds ==
  /\ mpc # "crashed"
  /\ mpc = "returned" => typed \in ExitTexts

\* ------------------------------------------------------------------ C22
Writes(n) == {i \in 1..Len(log) : log[i].op = "write" /\ log[i].node = n}

\* C22: in a miniMax(root) run that returned, every internal node reachable
\* from the root was written exactly once, and no write put None where a
\* number had been written.
C22_WrittenOnce ==
  pc = "evaluated" =>
    \A n \in Reachable :
      nodes[n].type # "leaf" =>
        /\ Cardinality(Writes(n)) = 1
        /\ \A i, j \in Writes(n) : (i < j /\ log[i].value # None) => log[j].value # None

\* ------------------------------------------------------------------ C23
\* The value n holds just before the i-th event of the log.
ValueBefore(n, i) ==
  LET earlier == {j \in Writes(n) : j < i}
  IN IF earlier = {} THEN before[n].value
     ELSE log[CHOOSE j \in earlier : \A h \in earlier : h =< j].value

\* The call that the write at index w ends: the last call on that node
\* before w.
CallOf(w) ==
  CHOOSE p \in 1..w : /\ log[p] = CallEvent(log[w].node)
                      /\ \A q \in (p + 1)..w : log[q] # CallEvent(log[w].node)

\* The calls on children[k], children[k+1], ... appear in this order among
\* the events from..to.
RECURSIVE CalledInOrder(_, _, _, _)
CalledInOrder(children, k, from, to) ==
  IF k > Len(children) THEN TRUE
  ELSE LET hits == {i \in from..to : log[i] = CallEvent(children[k])}
       IN /\ hits # {}
          /\ CalledInOrder(children, k + 1, (CHOOSE i \in hits : \A h \in hits : i =< h) + 1, to)

\* C23: whenever miniMax writes a node, every node below it already holds
\* the value it has when the call is over, every internal node below it has
\* been written, and the calls on its children were made in the order of its
\* children list, the first of them right after the call on the node.
C23_PostOrderLeftToRight ==
  Called =>
    \A w \in 1..Len(log) :
      log[w].op = "write" =>
        LET n == log[w].node
            children == before[n].children
        IN /\ \A c \in Descendants(before, n) :
                /\ ValueBefore(c, w) = nodes[c].value
                /\ before[c].type # "leaf" => \E j \in Writes(c) : j < w
           /\ \E p \in 1..w : log[p] = CallEvent(n)
           /\ log[CallOf(w) + 1] = CallEvent(children[1])
           /\ CalledInOrder(children, 1, CallOf(w) + 1, w)

\* The root has two different children, the second of them internal: it was
\* written before the root and called after the first.
C23_Witness ==
  /\ pc = "evaluated"
  /\ Len(nodes[root].children) = 2
  /\ nodes[root].children[1] # nodes[root].children[2]
  /\ nodes[nodes[root].children[2]].type \in {"max", "min"}
  /\ Written(nodes[root].children[2])
  /\ Written(root)

\* ------------------------------------------------------------------ C24
InternalBelow(heap, n) == {m \in Subtree(heap, n) : heap[m].type # "leaf"}

\* C24: a miniMax call either returned with every internal node of the
\* subtree written, or raised without having written any value.
C24_AllOrNothing ==
  Called =>
    \/ Returned /\ \A m \in InternalBelow(before, arg) : Written(m)
    \/ ~Returned /\ \A i \in 1..Len(log) : log[i].op # "write"

\* ------------------------------------------------------------------ C25
\* C25: in a built tree the children of every non-leaf node are the nodes
\* its spec lists, as many and in that order.
C25_ChildrenAsDeclared ==
  Built =>
    \A n \in DOMAIN nodes :
      nodes[n].type # "leaf" =>
        /\ Len(nodes[n].children) = Len(data.nodes[n].children)
        /\ \A i \in 1..Len(nodes[n].children) :
             /\ nodes[n].children[i] \in DOMAIN nodes
             /\ nodes[nodes[n].children[i]].name = data.nodes[n].children[i]

\* A node that lists C before B has C as first child and B as second.
C25_Witness ==
  /\ pc = "built"
  /\ \E n \in DOMAIN nodes :
       /\ data.nodes[n].children = <<Keys[3], Keys[2]>>
       /\ nodes[n].children = <<Keys[3], Keys[2]>>

\* ------------------------------------------------------------------ C26
FirstCall == pc \in {"evaluated", "evaluate_failed", "node_evaluated", "node_failed"}

\* C26: a max/min node of a built tree holds no value before miniMax writes
\* it, whatever its spec says under 'value'; a leaf holds its spec's value.
C26_InternalUnvalued ==
  /\ pc = "built" =>
       \A n \in DOMAIN nodes :
         IF nodes[n].type = "leaf"
         THEN nodes[n].value = data.nodes[n].value
         ELSE nodes[n].value = None
  /\ FirstCall =>
       \A n \in DOMAIN nodes :
         nodes[n].type # "leaf" => (before[n].value = None /\ (~Written(n) => nodes[n].value = None))

\* A min node whose spec carries "value": 0 was built without a value.
C26_Witness ==
  /\ pc = "built"
  /\ \E n \in DOMAIN nodes :
       /\ nodes[n].type = "min"
       /\ data.nodes[n].hasValue
       /\ data.nodes[n].value = Some(0)
       /\ nodes[n].value = None

\* ------------------------------------------------------------------ C27
\* The spec gets through the first loop.
PassesFirstLoop(spec) ==
  /\ spec.isDict /\ spec.hasType
  /\ spec.type = "leaf" => spec.hasValue /\ ~spec.hasChildren
  /\ spec.type # "leaf" => spec.hasChildren

EmptyInner(spec) ==
  /\ spec.isDict /\ spec.hasType /\ spec.type # "leaf"
  /\ spec.hasChildren /\ spec.childrenIsList /\ spec.children = <<>>

\* A dangling reference together with an undefined root or an internal node
\* with an empty children list.
DanglingAndLater(d) ==
  /\ HasDanglingReference(d)
  /\ d.root \notin DOMAIN d.nodes \/ \E k \in DOMAIN d.nodes : EmptyInner(d.nodes[k])

\* C27, as stated: when every spec gets through the first loop, a
\* description with a dangling reference and a defect tested later fails
\* with the dangling-child error, whatever the iteration order.
C27_DanglingFirst ==
  ( /\ pc # "start"
    /\ DanglingAndLater(data)
    /\ \A k \in DOMAIN data.nodes : PassesFirstLoop(data.nodes[k]) )
    => (pc = "build_failed" /\ DanglingChildError)

\* C27, amended: the same when, moreover, every 'children' is a list.
C27_DanglingFirstAmongLists ==
  ( /\ pc # "start"
    /\ DanglingAndLater(data)
    /\ \A k \in DOMAIN data.nodes : CreatableSpec(data.nodes[k]) )
    => (pc = "build_failed" /\ DanglingChildError)

\* The root is undefined and the error is the one of the dangling child,
\* raised on the node iterated second.
C27_Witness ==
  /\ pc = "build_failed"
  /\ DanglingChildError
  /\ data.root \notin DOMAIN data.nodes
  /\ \A k \in DOMAIN data.nodes : CreatableSpec(data.nodes[k])
  /\ Cardinality(DOMAIN nodes) > 1

\* ------------------------------------------------------------------ C28
DeclaredChildren(d, n) ==
  IF n \in DOMAIN d.nodes /\ d.nodes[n].type # "leaf"
  THEN {d.nodes[n].children[i] : i \in 1..Len(d.nodes[n].children)}
  ELSE {}

RECURSIVE DeclaredClosure(_, _)
DeclaredClosure(d, S) ==
  LET T == S \cup UNION {DeclaredChildren(d, n) : n \in S}
  IN IF T = S THEN S ELSE DeclaredClosure(d, T)

\* k is a max/min node with an empty children list that the root does not
\* reach, and nothing else is wrong with the description.
OnlyDefectIsUnreachableEmpty(d, k) ==
  /\ d.shape = "dict"
  /\ d.root \in DOMAIN d.nodes
  /\ EmptyInner(d.nodes[k]) /\ d.nodes[k].type \in {"max", "min"}
  /\ \A j \in DOMAIN d.nodes \ {k} : WellFormedSpec(d.nodes[j], DOMAIN d.nodes)
  /\ k \notin DeclaredClosure(d, {d.root})

\* C28: a description whose only defect is a max/min node with an empty
\* children list that the root does not reach is refused, with the error
\* that names this node.
C28_SweepCoversAll ==
  \A k \in DOMAIN data.nodes :
    (pc # "start" /\ OnlyDefectIsUnreachableEmpty(data, k)) =>
      /\ pc = "build_failed"
      /\ err.msg = "Node '{name}' of type '{type}' must have children."
      /\ err.node = k

\* The root has children of its own and the refused node is none of its
\* descendants.
C28_Witness ==
  /\ pc = "build_failed"
  /\ err.msg = "Node '{name}' of type '{type}' must have children."
  /\ err.node \in DOMAIN data.nodes
  /\ OnlyDefectIsUnreachableEmpty(data, err.node)
  /\ data.nodes[data.root].type # "leaf"

\* ------------------------------------------------------------------ C30
\* What a caller can tell of a built tree: names, types, values, children.
Shape(heap) ==
  [n \in DOMAIN heap |-> [name |-> heap[n].name, type |-> heap[n].type,
                          value |-> heap[n].value, children |-> heap[n].children]]

SameOutcome(r1, r2) ==
  /\ (r1.err = NoError) <=> (r2.err = NoError)
  /\ r1.err = NoError => Shape(r1.nodes) = Shape(r2.nodes)

\* C30: for every description and iteration order, the three copies of
\* parse_tree_from_dict all fail or all succeed, and build the same tree.
C30_CopiesAgree ==
  pc = "start" =>
    \A order \in AllOrders :
      /\ SameOutcome(parse_tree_from_dict(data, order),
                     HW1_json_parser_parse_tree_from_dict(data, order))
      /\ SameOutcome(parse_tree_from_dict(data, order),
                     HW1_py_parse_tree_from_dict(data, order))

====
